---- MODULE Spec2Model ----
(***************************************************************************)
(* A model of SerialManager (src/SerialManager.h): the line accumulator    *)
(* respondToByte, the line parser and dispatcher processLine_, printHelp,  *)
(* and the device-control functions of the main sketch they call.          *)
(*                                                                         *)
(* Characters are their ASCII codes.  A float is the decimal number the    *)
(* text denotes, kept exactly as [neg, mant, e10] = (-1)^neg * mant *      *)
(* 10^e10 with mant free of trailing zeros; every value the bounded input  *)
(* can denote is far inside the range where distinct short decimals are    *)
(* distinct floats.                                                        *)
(***************************************************************************)
EXTENDS Integers, Sequences, FiniteSets

\* ------------------------------------------------------------ characters
NUL == 0
TAB == 9
LF == 10
CR == 13
SPACE == 32
PLUS == 43
MINUS == 45
DOT == 46
DIGIT0 == 48
QMARK == 63
UpperC == 67
UpperD == 68
UpperE == 69
UpperG == 71
UpperH == 72
UpperK == 75
LowerA == 97
LowerB == 98
LowerC == 99
LowerD == 100
LowerE == 101
LowerG == 103
LowerH == 104
LowerK == 107
LowerX == 120
LowerZ == 122

\* sizeof(cmd_buffer_)
CmdBufferSize == 64
\* uint8_t cmd_len_
Uint8Mod == 256

\* ---------------------------------------------------------------- bounds
\* Every line of at most MaxFree characters, the first of Alphabet and the
\* others of ArgAlphabet, is fed.
MaxFree == 2
\* The longest line fed.
MaxLine == 130

Digit(n) == DIGIT0 + n

Alphabet ==
  { NUL, SPACE, Digit(1), QMARK, LowerZ, UpperH, UpperK,
    LowerC, LowerD, LowerG, LowerH, LowerK }

ArgAlphabet == { NUL, SPACE, Digit(1), LowerZ, LowerD, LowerK }

Pad(n) == [i \in 1..n |-> LowerZ]

\* Longer lines that are fed as well: the lines the specification quotes,
\* some numeric forms, and lines that fill or overflow the buffer.
ScriptLines ==
  { <<LowerK, SPACE, Digit(1), Digit(0)>>,
    <<LowerD, SPACE, Digit(2), Digit(5)>>,
    <<UpperD, SPACE, Digit(2), Digit(5)>>,
    <<LowerK, SPACE, Digit(1), Digit(0), LowerA, LowerB, LowerC>>,
    <<LowerG, SPACE, Digit(5)>>,
    <<UpperG>>,
    <<UpperC>>,
    <<UpperD>>,
    <<SPACE, LowerH>>,
    <<SPACE, SPACE, SPACE>>,
    <<LowerH, LowerH>>,
    <<QMARK, SPACE, LowerG>>,
    <<LowerC, SPACE, LowerC>>,
    <<TAB, LowerK, TAB, PLUS, Digit(1), DOT, Digit(0), LowerE, Digit(1)>>,
    <<LowerK, SPACE, MINUS, Digit(1)>>,
    <<LowerK, SPACE, MINUS, LowerZ>>,
    <<LowerD, Digit(1), LowerE>>,
    <<LowerK, NUL, Digit(1)>>,
    <<LowerX>>,
    <<LowerK, Digit(1), Digit(0)>>,
    Pad(MaxLine),
    Pad(CmdBufferSize) \o <<LowerK, Digit(1)>>,
    Pad(CmdBufferSize - 1) \o <<LowerK, LowerD, Digit(1)>>,
    <<LowerK, Digit(1)>> \o Pad(CmdBufferSize - 2) }

IsPrefix(s, t) == Len(s) <= Len(t) /\ SubSeq(t, 1, Len(s)) = s

\* ---------------------------------------------------------------- floats
Zero == [neg |-> FALSE, mant |-> 0, e10 |-> 0]

RECURSIVE Normalize(_)
Normalize(v) ==
  IF v.mant = 0 THEN [v EXCEPT !.e10 = 0]
  ELSE IF v.mant % 10 = 0
       THEN Normalize([v EXCEPT !.mant = v.mant \div 10, !.e10 = v.e10 + 1])
       ELSE v

\* ------------------------------------------------------- <ctype.h>, strtof
\* isspace in the C locale
IsSpace(c) == c \in (TAB..CR) \cup {SPACE}

IsDigit(c) == c \in DIGIT0..(DIGIT0 + 9)

\* *line for a pointer p (1-based) into the memory mem; the cell after the
\* modelled cells reads as the terminator.
At(mem, p) == IF p \in 1..Len(mem) THEN mem[p] ELSE NUL

\* while (*line && isspace((unsigned char)*line)) line++;
SkipSpace_None(mem, p) == p
RECURSIVE SkipSpace(_, _)
SkipSpace(mem, p) ==
  IF At(mem, p) # NUL /\ IsSpace(At(mem, p)) THEN SkipSpace(mem, p + 1) ELSE p

RECURSIVE DigitsEnd(_, _)
DigitsEnd(mem, p) == IF IsDigit(At(mem, p)) THEN DigitsEnd(mem, p + 1) ELSE p

\* the number the digits in cells p..q-1 denote, after acc
RECURSIVE DigitsVal(_, _, _, _)
DigitsVal(mem, p, q, acc) ==
  IF p >= q THEN acc
  ELSE DigitsVal(mem, p + 1, q, 10 * acc + (At(mem, p) - DIGIT0))

\* strtof(line, &endptr) for decimal text: optional whitespace, optional
\* sign, digits with an optional point (at least one digit), an optional
\* exponent.  Result: [end |-> endptr, val |-> the value].  The hexadecimal,
\* "inf" and "nan" forms need characters the bounded input never holds.
StrToF(mem, p) ==
  LET s0 == SkipSpace(mem, p)
      hasSign == At(mem, s0) \in {PLUS, MINUS}
      s1 == IF hasSign THEN s0 + 1 ELSE s0
      e1 == DigitsEnd(mem, s1)
      hasPoint == At(mem, e1) = DOT
      f1 == IF hasPoint THEN e1 + 1 ELSE e1
      e2 == DigitsEnd(mem, f1)
      nInt == e1 - s1
      nFrac == e2 - f1
      valid == nInt + nFrac > 0
      hasE == At(mem, e2) \in {LowerE, UpperE}
      x0 == e2 + 1
      xSign == At(mem, x0) \in {PLUS, MINUS}
      x1 == IF xSign THEN x0 + 1 ELSE x0
      x2 == DigitsEnd(mem, x1)
      hasExp == hasE /\ x2 > x1
      expAbs == DigitsVal(mem, x1, x2, 0)
      exp == IF ~hasExp THEN 0
             ELSE IF At(mem, x0) = MINUS THEN 0 - expAbs ELSE expAbs
      mant == DigitsVal(mem, f1, e2, DigitsVal(mem, s1, e1, 0))
  IN IF ~valid
     THEN [end |-> p, val |-> Zero]
     ELSE [end |-> IF hasExp THEN x2 ELSE e2,
           val |-> Normalize([neg |-> At(mem, s0) = MINUS,
                              mant |-> mant,
                              e10 |-> exp - nFrac])]

\* ---------------------------------------------------------------- events
\* What one call does to the outside, in order: text written to Serial and
\* calls into the main sketch.
Ev(op, text, val, n) == [op |-> op, text |-> text, val |-> val, n |-> n]

\* Serial.print("...") and Serial.println("...")
SerialPrint(text) == Ev("print", text, Zero, 0)
SerialPrintln(text) == Ev("println", text, Zero, 0)
\* Serial.print(float, digits); the default is 2 digits
SerialPrintFloat(v, digits) == Ev("printFloat", "", v, digits)
\* Serial.println(char)
SerialPrintlnChar(c) == Ev("printlnChar", "", Zero, c)
\* a call of a function of the main sketch; val is its argument (for
\* printGainSettings, the gain it reads)
Call(name, v) == Ev("call", name, v, 0)
\* processLine_(cmd_buffer_) is entered with the string that starts at the
\* given memory
Enter(line) == [op |-> "processLine_", text |-> "", val |-> Zero, n |-> 0,
                line |-> line]

IsOutput(e) == e.op \in {"print", "println", "printFloat", "printlnChar"}
IsCall(e) == e.op = "call"

\* ------------------------------------------------------------- printHelp
printHelp ==
  << SerialPrintln(""),
     SerialPrintln("SerialManager Help: Available Commands:"),
     SerialPrintln("   h or ?: Print this help"),
     SerialPrintln("   g      : Print the current gain and delay settings"),
     SerialPrintln("   C      : Toggle printing of CPU and Memory usage"),
     SerialPrintln("   k <dB> : Set digital gain in dB (example: k 10)"),
     SerialPrintln("   d <ms> : Set delay time in ms (example: d 25)"),
     SerialPrintln("") >>

\* ---------------------------------------------------------- processLine_
\* The string a const char* to mem denotes: the cells before the first NUL.
RECURSIVE StrEnd(_, _)
StrEnd(mem, p) == IF At(mem, p) = NUL THEN p ELSE StrEnd(mem, p + 1)

CStr(mem) == SubSeq(mem, 1, StrEnd(mem, 1) - 1)

\* the switch (cmd) of processLine_
Dispatch_SwappedSetters(cmd, has_arg, arg, gain, delay) ==
  CASE cmd \in {LowerH, QMARK} -> printHelp
    [] cmd \in {LowerK, UpperK} /\ has_arg -> << Call("setDelay_ms", arg) >>
    [] cmd \in {LowerD, UpperD} /\ has_arg -> << Call("setVolKnobGain_dB", arg) >>
    [] cmd \in {LowerK, UpperK} ->
         << SerialPrint("Usage: k <dB>   (current = "),
            SerialPrintFloat(gain, 1),
            SerialPrintln(" dB)") >>
    [] cmd \in {LowerD, UpperD} ->
         << SerialPrint("Usage: d <ms>   (current = "),
            SerialPrintFloat(delay, 2),
            SerialPrintln(" ms)") >>
    [] OTHER -> << >>
Dispatch_UnknownAsHelp(cmd, has_arg, arg, gain, delay) ==
  CASE cmd \in {LowerH, QMARK} -> printHelp
    [] cmd \in {LowerG, UpperG} ->
         << Call("printGainSettings", gain),
            SerialPrint("Delay = "), SerialPrintFloat(delay, 2), SerialPrintln(" ms") >>
    [] cmd \in {UpperC, LowerC} ->
         << SerialPrintln("Command Received: toggle printing of memory and CPU usage."),
            Call("togglePrintMemoryAndCPU", Zero) >>
    [] cmd \in {LowerK, UpperK} ->
         IF has_arg
         THEN << Call("setVolKnobGain_dB", arg) >>
         ELSE << SerialPrint("Usage: k <dB>   (current = "),
                 SerialPrintFloat(gain, 1),
                 SerialPrintln(" dB)") >>
    [] cmd \in {LowerD, UpperD} ->
         IF has_arg
         THEN << Call("setDelay_ms", arg) >>
         ELSE << SerialPrint("Usage: d <ms>   (current = "),
                 SerialPrintFloat(delay, 2),
                 SerialPrintln(" ms)") >>
    [] OTHER -> printHelp
Dispatch_MissingBreak(cmd, has_arg, arg, gain, delay) ==
  CASE cmd \in {LowerH, QMARK} -> printHelp
    [] cmd \in {LowerG, UpperG} ->
         << Call("printGainSettings", gain),
            SerialPrint("Delay = "), SerialPrintFloat(delay, 2), SerialPrintln(" ms"),
            SerialPrintln("Command Received: toggle printing of memory and CPU usage."),
            Call("togglePrintMemoryAndCPU", Zero) >>
    [] cmd \in {UpperC, LowerC} ->
         << SerialPrintln("Command Received: toggle printing of memory and CPU usage."),
            Call("togglePrintMemoryAndCPU", Zero) >>
    [] cmd \in {LowerK, UpperK} ->
         IF has_arg
         THEN << Call("setVolKnobGain_dB", arg) >>
         ELSE << SerialPrint("Usage: k <dB>   (current = "),
                 SerialPrintFloat(gain, 1),
                 SerialPrintln(" dB)") >>
    [] cmd \in {LowerD, UpperD} ->
         IF has_arg
         THEN << Call("setDelay_ms", arg) >>
         ELSE << SerialPrint("Usage: d <ms>   (current = "),
                 SerialPrintFloat(delay, 2),
                 SerialPrintln(" ms)") >>
    [] OTHER ->
         << SerialPrint("Unknown command: "), SerialPrintlnChar(cmd),
            SerialPrintln("Type 'h' for help.") >>
Dispatch_GSetsDelay(cmd, has_arg, arg, gain, delay) ==
  CASE cmd \in {LowerH, QMARK} -> printHelp
    [] cmd \in {LowerG, UpperG} ->
         << Call("printGainSettings", gain),
            SerialPrint("Delay = "), SerialPrintFloat(delay, 2), SerialPrintln(" ms"),
            Call("setDelay_ms", arg) >>
    [] cmd \in {UpperC, LowerC} ->
         << SerialPrintln("Command Received: toggle printing of memory and CPU usage."),
            Call("togglePrintMemoryAndCPU", Zero) >>
    [] cmd \in {LowerK, UpperK} ->
         IF has_arg
         THEN << Call("setVolKnobGain_dB", arg) >>
         ELSE << SerialPrint("Usage: k <dB>   (current = "),
                 SerialPrintFloat(gain, 1),
                 SerialPrintln(" dB)") >>
    [] cmd \in {LowerD, UpperD} ->
         IF has_arg
         THEN << Call("setDelay_ms", arg) >>
         ELSE << SerialPrint("Usage: d <ms>   (current = "),
                 SerialPrintFloat(delay, 2),
                 SerialPrintln(" ms)") >>
    [] OTHER ->
         << SerialPrint("Unknown command: "), SerialPrintlnChar(cmd),
            SerialPrintln("Type 'h' for help.") >>
Dispatch_ToggleFirst(cmd, has_arg, arg, gain, delay) ==
  CASE cmd \in {LowerH, QMARK} -> printHelp
    [] cmd \in {LowerG, UpperG} ->
         << Call("printGainSettings", gain),
            SerialPrint("Delay = "), SerialPrintFloat(delay, 2), SerialPrintln(" ms") >>
    [] cmd \in {UpperC, LowerC} ->
         << Call("togglePrintMemoryAndCPU", Zero),
            SerialPrintln("Command Received: toggle printing of memory and CPU usage.") >>
    [] cmd \in {LowerK, UpperK} ->
         IF has_arg
         THEN << Call("setVolKnobGain_dB", arg) >>
         ELSE << SerialPrint("Usage: k <dB>   (current = "),
                 SerialPrintFloat(gain, 1),
                 SerialPrintln(" dB)") >>
    [] cmd \in {LowerD, UpperD} ->
         IF has_arg
         THEN << Call("setDelay_ms", arg) >>
         ELSE << SerialPrint("Usage: d <ms>   (current = "),
                 SerialPrintFloat(delay, 2),
                 SerialPrintln(" ms)") >>
    [] OTHER ->
         << SerialPrint("Unknown command: "), SerialPrintlnChar(cmd),
            SerialPrintln("Type 'h' for help.") >>
Dispatch(cmd, has_arg, arg, gain, delay) ==
  CASE cmd \in {LowerH, QMARK} -> printHelp
    [] cmd \in {LowerG, UpperG} ->
         << Call("printGainSettings", gain),
            SerialPrint("Delay = "), SerialPrintFloat(delay, 2), SerialPrintln(" ms") >>
    [] cmd \in {UpperC, LowerC} ->
         << SerialPrintln("Command Received: toggle printing of memory and CPU usage."),
            Call("togglePrintMemoryAndCPU", Zero) >>
    [] cmd \in {LowerK, UpperK} ->
         IF has_arg
         THEN << Call("setVolKnobGain_dB", arg) >>
         ELSE << SerialPrint("Usage: k <dB>   (current = "),
                 SerialPrintFloat(gain, 1),
                 SerialPrintln(" dB)") >>
    [] cmd \in {LowerD, UpperD} ->
         IF has_arg
         THEN << Call("setDelay_ms", arg) >>
         ELSE << SerialPrint("Usage: d <ms>   (current = "),
                 SerialPrintFloat(delay, 2),
                 SerialPrintln(" ms)") >>
    [] OTHER ->
         << SerialPrint("Unknown command: "), SerialPrintlnChar(cmd),
            SerialPrintln("Type 'h' for help.") >>

\* the optional numeric argument at p: [has_arg, arg]
ParseArg_AnyText(mem, p) ==
  [has_arg |-> At(mem, p) # NUL, arg |-> StrToF(mem, p).val]
ParseArg_WholeText(mem, p) ==
  IF At(mem, p) # NUL
  THEN LET r == StrToF(mem, p)
       IN [has_arg |-> r.end # p /\ At(mem, r.end) = NUL, arg |-> r.val]
  ELSE [has_arg |-> FALSE, arg |-> Zero]
ParseArg(mem, p) ==
  IF At(mem, p) # NUL
  THEN LET r == StrToF(mem, p)
       IN [has_arg |-> r.end # p, arg |-> r.val]
  ELSE [has_arg |-> FALSE, arg |-> Zero]

\* processLine_(line) with line pointing to the first cell of mem, while
\* the gain is gain and the delay is delay: the events it causes.
processLine_WholeToken(mem, gain, delay) ==
  LET p0 == SkipSpace(mem, 1)
      cmd == At(mem, p0)
      next == At(mem, p0 + 1)
      p1 == SkipSpace(mem, p0 + 1)
      a == ParseArg(mem, p1)
  IN IF cmd = NUL THEN << >>
     ELSE IF next # NUL /\ ~IsSpace(next)
     THEN << SerialPrint("Unknown command: "), SerialPrintlnChar(cmd),
             SerialPrintln("Type 'h' for help.") >>
     ELSE Dispatch(cmd, a.has_arg, a.arg, gain, delay)
processLine_(mem, gain, delay) ==
  LET p0 == SkipSpace(mem, 1)
      cmd == At(mem, p0)
      p1 == SkipSpace(mem, p0 + 1)
      a == ParseArg(mem, p1)
  IN IF cmd = NUL THEN << >>
     ELSE Dispatch(cmd, a.has_arg, a.arg, gain, delay)

\* ------------------------------------------------- the main sketch's side
\* The device state and the functions declared extern; their bodies are in
\* the main sketch.
setVolKnobGain_dB(dev, v) == [dev EXCEPT !.gain = v]
setDelay_ms(dev, v) == [dev EXCEPT !.delay = v]
togglePrintMemoryAndCPU(dev) == [dev EXCEPT !.printCPU = ~dev.printCPU]

CallEffect(e, dev) ==
  IF ~IsCall(e) THEN dev
  ELSE CASE e.text = "setVolKnobGain_dB" -> setVolKnobGain_dB(dev, e.val)
         [] e.text = "setDelay_ms" -> setDelay_ms(dev, e.val)
         [] e.text = "togglePrintMemoryAndCPU" -> togglePrintMemoryAndCPU(dev)
         [] OTHER -> dev

\* the device state after the calls among the events evs, in order
RECURSIVE RunCalls(_, _)
RunCalls(evs, dev) ==
  IF evs = << >> THEN dev
  ELSE RunCalls(Tail(evs), CallEffect(Head(evs), dev))

\* ----------------------------------------------------------------- state
VARIABLES
  cmd_buffer_,        \* cells 0..cmd_len_ of char cmd_buffer_[64]; cell i is
                      \* cmd_buffer_[i + 1].  The cells above hold bytes of
                      \* earlier lines (or nothing yet) and are not kept.
  cmd_len_,           \* uint8_t cmd_len_
  vol_knob_gain_dB,   \* extern float vol_knob_gain_dB
  delay_ms,           \* extern float delay_ms
  printCPU,           \* the flag togglePrintMemoryAndCPU flips
  last_op,            \* the last call: "construct", "respondToByte", "printHelp"
  last_c,             \* the byte of the last respondToByte call
  trace,              \* the events of the last call
  fed,                \* the bytes other than CR and LF fed since the last LF
  notices             \* the overflow notices emitted since the last LF

vars == << cmd_buffer_, cmd_len_, vol_knob_gain_dB, delay_ms, printCPU,
           last_op, last_c, trace, fed, notices >>

Dev == [gain |-> vol_knob_gain_dB, delay |-> delay_ms, printCPU |-> printCPU]

\* cmd_buffer_[i] = v
Store(mem, i, v) ==
  IF i < Len(mem) THEN [mem EXCEPT ![i + 1] = v]
  ELSE Append(SubSeq(mem, 1, i), v)

\* The cells the model keeps once the length is len: cells 0..len.  The code
\* reads the buffer as a string only, and the terminator it writes at
\* cmd_buffer_[cmd_len_] ends every such read at or before cell len.
Cells(mem, len) ==
  SubSeq(mem, 1, IF len + 1 < Len(mem) THEN len + 1 ELSE Len(mem))

\* the characters accumulated so far
Content == SubSeq(cmd_buffer_, 1, cmd_len_)

\* SerialManager(void) : cmd_len_(0) { cmd_buffer_[0] = '\0'; }
Init ==
  /\ cmd_buffer_ = << NUL >>
  /\ cmd_len_ = 0
  /\ vol_knob_gain_dB = Zero
  /\ delay_ms = Zero
  /\ printCPU = FALSE
  /\ last_op = "construct"
  /\ last_c = NUL
  /\ trace = << >>
  /\ fed = << >>
  /\ notices = 0

\* The bytes the serial link delivers next: CR and LF at any time, and any
\* byte that continues a line of at most MaxFree characters or a scripted
\* line.
CanFeed(c) ==
  \/ c \in {CR, LF}
  \/ Len(fed) < MaxFree /\ c \in (IF fed = << >> THEN Alphabet ELSE ArgAlphabet)
  \/ \E l \in ScriptLines : IsPrefix(Append(fed, c), l)

\* if (c == '\r') return;
IgnoreCR_Never(c) == FALSE
IgnoreCR(c) == c = CR

\* if (cmd_len_ < (sizeof(cmd_buffer_) - 1))
HasRoom_OneMore(len) == len < CmdBufferSize
HasRoom_OneLess(len) == len < CmdBufferSize - 2
HasRoom(len) == len < CmdBufferSize - 1

\* the branch taken on '\n': terminate, process, reset
EndOfCommand_KeepUnknown ==
  LET mem == Store(cmd_buffer_, cmd_len_, NUL)
      evs == processLine_(mem, vol_knob_gain_dB, delay_ms)
      dev == RunCalls(evs, Dev)
      keep == Len(evs) = 3 /\ evs[2].op = "printlnChar"
  IN /\ trace' = << Enter(CStr(mem)) >> \o evs
     /\ vol_knob_gain_dB' = dev.gain
     /\ delay_ms' = dev.delay
     /\ printCPU' = dev.printCPU
     /\ cmd_len_' = IF keep THEN cmd_len_ ELSE 0
     /\ cmd_buffer_' = IF keep THEN mem ELSE Cells(Store(mem, 0, NUL), 0)
     /\ fed' = << >>
EndOfCommand ==
  LET mem == Store(cmd_buffer_, cmd_len_, NUL)
      evs == processLine_(mem, vol_knob_gain_dB, delay_ms)
      dev == RunCalls(evs, Dev)
  IN /\ trace' = << Enter(CStr(mem)) >> \o evs
     /\ vol_knob_gain_dB' = dev.gain
     /\ delay_ms' = dev.delay
     /\ printCPU' = dev.printCPU
     /\ cmd_len_' = 0
     /\ cmd_buffer_' = Cells(Store(mem, 0, NUL), 0)
     /\ fed' = << >>

\* cmd_buffer_[cmd_len_++] = c; cmd_buffer_[cmd_len_] = '\0';
Accumulate_NoAdvance(c) ==
  /\ cmd_len_' = cmd_len_
  /\ cmd_buffer_' = Cells(Store(Store(cmd_buffer_, cmd_len_, c), cmd_len_, NUL), cmd_len_)
  /\ trace' = << >>
Accumulate(c) ==
  LET len == (cmd_len_ + 1) % Uint8Mod
  IN /\ cmd_len_' = len
     /\ cmd_buffer_' = Cells(Store(Store(cmd_buffer_, cmd_len_, c), len, NUL), len)
     /\ trace' = << >>

OverflowNotice == SerialPrintln("Command too long. Buffer cleared.")

\* overflow: reset buffer
Overflow_Silent(c) ==
  /\ cmd_len_' = 0
  /\ cmd_buffer_' = Cells(Store(cmd_buffer_, 0, NUL), 0)
  /\ trace' = << >>
Overflow_ProcessesLine(c) ==
  /\ cmd_len_' = 0
  /\ cmd_buffer_' = Cells(Store(cmd_buffer_, 0, NUL), 0)
  /\ trace' = << Enter(CStr(cmd_buffer_)), OverflowNotice >>
Overflow_Retry(c) ==
  /\ cmd_len_' = 1
  /\ cmd_buffer_' = << c, NUL >>
  /\ trace' = << OverflowNotice >>
Overflow(c) ==
  /\ cmd_len_' = 0
  /\ cmd_buffer_' = Cells(Store(cmd_buffer_, 0, NUL), 0)
  /\ trace' = << OverflowNotice >>

\* the overflow notices among the events evs
NoticeCount(evs) == Cardinality({i \in 1..Len(evs) : evs[i] = OverflowNotice})

\* void SerialManager::respondToByte(char c)
respondToByte(c) ==
  /\ CanFeed(c)
  /\ last_op' = "respondToByte"
  /\ last_c' = c
  /\ IF IgnoreCR(c)
     THEN /\ trace' = << >>
          /\ UNCHANGED << cmd_buffer_, cmd_len_, vol_knob_gain_dB, delay_ms,
                          printCPU, fed, notices >>
     ELSE IF c = LF
     THEN /\ EndOfCommand
          /\ notices' = 0
     ELSE /\ IF HasRoom(cmd_len_) THEN Accumulate(c) ELSE Overflow(c)
          /\ fed' = Append(fed, c)
          /\ notices' = notices + NoticeCount(trace')
          /\ UNCHANGED << vol_knob_gain_dB, delay_ms, printCPU >>

\* void SerialManager::printHelp(void), called from the sketch
CallPrintHelp ==
  /\ last_op' = "printHelp"
  /\ last_c' = NUL
  /\ trace' = printHelp
  /\ UNCHANGED << cmd_buffer_, cmd_len_, vol_knob_gain_dB, delay_ms,
                  printCPU, fed, notices >>

Bytes == Alphabet \cup {CR, LF} \cup UNION { {l[i] : i \in 1..Len(l)} : l \in ScriptLines }

Next ==
  \/ \E c \in Bytes : respondToByte(c)
  \/ CallPrintHelp

Spec == Init /\ [][Next]_vars

TypeOK ==
  /\ cmd_len_ \in 0..(Uint8Mod - 1)
  /\ last_op \in {"construct", "respondToByte", "printHelp"}
  /\ printCPU \in BOOLEAN

\* ---------------------------------------------------------------- claims
Range(s) == {s[i] : i \in 1..Len(s)}

\* the step is a respondToByte call with a byte of the set S
Fed(S) == last_op' = "respondToByte" /\ last_c' \in S

\* the step is a respondToByte call with a byte that is neither CR nor LF
FedChar == last_op' = "respondToByte" /\ last_c' \notin {CR, LF}

DevUnchanged == UNCHANGED << vol_knob_gain_dB, delay_ms, printCPU >>

\* C1: after construction and after every call, cmd_len_ <= 63 and
\* cmd_buffer_[cmd_len_] is the NUL terminator; the cells written are
\* cells 0..cmd_len_, all inside the 64 cells of the buffer.
C1_BufferTerminated ==
  /\ cmd_len_ <= CmdBufferSize - 1
  /\ Len(cmd_buffer_) = cmd_len_ + 1
  /\ cmd_buffer_[cmd_len_ + 1] = NUL

\* a full buffer: 63 characters and the terminator in cell 63
C1_Witness ==
  /\ last_op = "respondToByte"
  /\ cmd_len_ = CmdBufferSize - 1
  /\ cmd_buffer_[CmdBufferSize] = NUL

\* C2: a call with '\n' enters the line processor with the string in the
\* buffer and leaves the buffer empty, whatever the line was.
C2_NewlineDispatchesAndResets ==
  [][Fed({LF}) =>
       /\ Len(trace') >= 1
       /\ trace'[1] = Enter(CStr(cmd_buffer_))
       /\ cmd_len_' = 0
       /\ cmd_buffer_' = << NUL >>]_vars

\* a '\n' after an unknown command left the buffer empty
C2_Witness ==
  /\ last_op = "respondToByte" /\ last_c = LF
  /\ Len(trace) = 4 /\ trace[3].op = "printlnChar"
  /\ cmd_len_ = 0

\* C3: counted from an empty buffer, the characters 1..63 of a line are
\* stored without an overflow notice and character 64 causes the notice;
\* a '\n' after 63 characters causes no notice and enters the line
\* processor with the buffer holding those 63 characters.
C3_OverflowAtSixtyFour ==
  [][/\ FedChar /\ Len(fed) < CmdBufferSize =>
          /\ (trace' = << OverflowNotice >>) <=> (Len(fed) = CmdBufferSize - 1)
          /\ Len(fed) < CmdBufferSize - 1 => trace' = << >> /\ cmd_len_' = Len(fed) + 1
     /\ Fed({LF}) /\ Len(fed) = CmdBufferSize - 1 =>
          /\ Content = fed
          /\ trace'[1] = Enter(CStr(fed))
          /\ \A i \in 1..Len(trace') : trace'[i] # OverflowNotice]_vars

\* a line of 63 characters, none of them NUL, was dispatched whole
C3_Witness ==
  /\ last_op = "respondToByte" /\ last_c = LF
  /\ Len(trace) >= 1 /\ trace[1].op = "processLine_"
  /\ Len(trace[1].line) = CmdBufferSize - 1

\* C4: a character other than CR and LF that arrives while the buffer holds
\* 63 characters empties the buffer, emits the overflow notice once and
\* nothing else, is not stored, and changes no device state.
C4_OverflowResets ==
  [][FedChar /\ cmd_len_ = CmdBufferSize - 1 =>
       /\ cmd_len_' = 0
       /\ cmd_buffer_' = << NUL >>
       /\ trace' = << OverflowNotice >>
       /\ DevUnchanged]_vars

\* the 64th character was a command letter, and it was dropped
C4_Witness ==
  /\ last_op = "respondToByte" /\ last_c = LowerK
  /\ trace = << OverflowNotice >>
  /\ cmd_len_ = 0

\* C5 as stated: a line of fewer than 63 characters reaches the line
\* processor as exactly the characters fed.
C5_LinePassedIntact ==
  [][Fed({LF}) /\ Len(fed) < CmdBufferSize - 1 =>
       trace'[1] = Enter(fed)]_vars

\* C5, amended: a line of fewer than 63 characters reaches the line
\* processor as the characters fed (CR left out) up to the first NUL among
\* them, so exactly as fed when it holds no NUL.
C5_LinePassedUpToNul ==
  [][Fed({LF}) /\ Len(fed) < CmdBufferSize - 1 =>
       /\ trace'[1] = Enter(CStr(fed))
       /\ NUL \notin Range(fed) => trace'[1].line = fed]_vars

\* the seven characters of "k 10abc" reached the line processor
C5_Witness ==
  /\ last_op = "respondToByte" /\ last_c = LF
  /\ Len(trace) >= 1
  /\ trace[1] = Enter(<<LowerK, SPACE, Digit(1), Digit(0), LowerA, LowerB, LowerC>>)

\* The line a '\n' is about to dispatch, its command letter and the place
\* where its argument would start.
Line == CStr(cmd_buffer_)
CmdPos == SkipSpace(Line, 1)
Cmd == At(Line, CmdPos)
ArgPos == SkipSpace(Line, CmdPos + 1)

\* the text at p starts with a decimal number: digits, or a point and a
\* digit, after an optional sign
HasNumber(mem, p) ==
  LET c0 == At(mem, p)
      c1 == At(mem, p + 1)
      c2 == At(mem, p + 2)
  IN \/ IsDigit(c0)
     \/ c0 = DOT /\ IsDigit(c1)
     \/ c0 \in {PLUS, MINUS} /\ (IsDigit(c1) \/ (c1 = DOT /\ IsDigit(c2)))

Ten == [neg |-> FALSE, mant |-> 1, e10 |-> 1]
TwentyFive == [neg |-> FALSE, mant |-> 25, e10 |-> 0]

UpperLetters == {UpperH, UpperG, UpperC, UpperK, UpperD}
ToLower(c) == IF c \in UpperLetters THEN c + (LowerH - UpperH) ELSE c

\* C6: a line whose command letter is H, G, C, K or D causes the output,
\* the calls and the device state that the same line with the letter in
\* lower case causes.
C6_CaseInsensitive ==
  [][Fed({LF}) /\ Cmd \in UpperLetters =>
       LET lower == [Line EXCEPT ![CmdPos] = ToLower(Cmd)]
           evs == processLine_(lower, vol_knob_gain_dB, delay_ms)
           dev == RunCalls(evs, Dev)
       IN /\ Tail(trace') = evs
          /\ vol_knob_gain_dB' = dev.gain
          /\ delay_ms' = dev.delay
          /\ printCPU' = dev.printCPU]_vars

\* C7: a call with '\r' changes neither the buffer, nor the length, nor the
\* device state, and emits nothing; no '\r' is ever in the buffer, and the
\* overflow notice comes only after 63 characters other than '\r' were fed
\* since the last '\n'.
C7_CarriageReturnIgnored ==
  [][/\ Fed({CR}) =>
          /\ UNCHANGED << cmd_buffer_, cmd_len_, fed >>
          /\ DevUnchanged
          /\ trace' = << >>
     /\ CR \notin Range(cmd_buffer_')
     /\ Fed({LF}) => CR \notin Range(trace'[1].line)
     /\ FedChar /\ trace' = << OverflowNotice >> =>
          Len(fed) % CmdBufferSize = CmdBufferSize - 1]_vars

\* a '\r' arrived while the buffer held 63 characters and nothing happened
C7_Witness ==
  /\ last_op = "respondToByte" /\ last_c = CR
  /\ cmd_len_ = CmdBufferSize - 1
  /\ Len(fed) = CmdBufferSize - 1
  /\ trace = << >>

\* C8: the '\n' that ends a line of more than 63 characters calls no
\* function of the sketch and leaves gain, delay and the flag as they were,
\* so that the lines after it find the device as if the oversized line had
\* never been sent.
C8_OversizedLineHasNoEffect ==
  [][Fed({LF}) /\ Len(fed) > CmdBufferSize - 1 =>
       /\ \A i \in 1..Len(trace') : ~IsCall(trace'[i])
       /\ DevUnchanged]_vars

\* C9: a k line with a number calls setVolKnobGain_dB once with the number
\* and nothing else, a d line with a number calls setDelay_ms once with the
\* number and nothing else; nothing is printed; "k 10" passes 10 and
\* "d 25" passes 25.
C9_SettersCalledWithArgument ==
  [][Fed({LF}) =>
       /\ Cmd \in {LowerK, UpperK} /\ HasNumber(Line, ArgPos) =>
            /\ Tail(trace') = << Call("setVolKnobGain_dB", StrToF(Line, ArgPos).val) >>
            /\ vol_knob_gain_dB' = StrToF(Line, ArgPos).val
            /\ UNCHANGED << delay_ms, printCPU >>
       /\ Cmd \in {LowerD, UpperD} /\ HasNumber(Line, ArgPos) =>
            /\ Tail(trace') = << Call("setDelay_ms", StrToF(Line, ArgPos).val) >>
            /\ delay_ms' = StrToF(Line, ArgPos).val
            /\ UNCHANGED << vol_knob_gain_dB, printCPU >>
       /\ Line = <<LowerK, SPACE, Digit(1), Digit(0)>> =>
            Tail(trace') = << Call("setVolKnobGain_dB", Ten) >>
       /\ Line = <<LowerD, SPACE, Digit(2), Digit(5)>> =>
            Tail(trace') = << Call("setDelay_ms", TwentyFive) >>]_vars

\* "d 25" was dispatched while the gain was 10: the delay is 25, the gain
\* still 10
C9_Witness ==
  /\ last_op = "respondToByte" /\ last_c = LF
  /\ trace = << Enter(<<LowerD, SPACE, Digit(2), Digit(5)>>),
                Call("setDelay_ms", TwentyFive) >>
  /\ delay_ms = TwentyFive
  /\ vol_knob_gain_dB = Ten

\* C10: a k or d line without a number (nothing after the letter, or text
\* that starts no number) prints the usage message with the current value,
\* calls nothing, and leaves gain, delay and the flag unchanged.
C10_MissingArgumentPrintsUsage ==
  [][Fed({LF}) /\ ~HasNumber(Line, ArgPos) =>
       /\ Cmd \in {LowerK, UpperK} =>
            /\ Tail(trace') = << SerialPrint("Usage: k <dB>   (current = "),
                                 SerialPrintFloat(vol_knob_gain_dB, 1),
                                 SerialPrintln(" dB)") >>
            /\ DevUnchanged
       /\ Cmd \in {LowerD, UpperD} =>
            /\ Tail(trace') = << SerialPrint("Usage: d <ms>   (current = "),
                                 SerialPrintFloat(delay_ms, 2),
                                 SerialPrintln(" ms)") >>
            /\ DevUnchanged]_vars

\* "k -z" was dispatched while the gain was 10: the usage message shows 10
C10_Witness ==
  /\ last_op = "respondToByte" /\ last_c = LF
  /\ trace = << Enter(<<LowerK, SPACE, MINUS, LowerZ>>),
                SerialPrint("Usage: k <dB>   (current = "),
                SerialPrintFloat(Ten, 1),
                SerialPrintln(" dB)") >>
  /\ vol_knob_gain_dB = Ten

\* the command letters of the specification, in both cases
Recognized ==
  { LowerH, UpperH, QMARK, LowerG, UpperG, LowerC, UpperC,
    LowerK, UpperK, LowerD, UpperD }

UnknownCommand(c) ==
  << SerialPrint("Unknown command: "), SerialPrintlnChar(c),
     SerialPrintln("Type 'h' for help.") >>

\* C11: a line whose first non-whitespace character is no command letter
\* prints "Unknown command: " with that character and then the help hint,
\* calls nothing, leaves gain, delay and the flag unchanged, and leaves the
\* buffer empty.
C11_UnknownCommandReported ==
  [][Fed({LF}) /\ Cmd # NUL /\ Cmd \notin Recognized =>
       /\ Tail(trace') = UnknownCommand(Cmd)
       /\ DevUnchanged
       /\ cmd_len_' = 0
       /\ cmd_buffer_' = << NUL >>]_vars

\* "x" was dispatched: the message names x
C11_Witness ==
  /\ last_op = "respondToByte" /\ last_c = LF
  /\ trace = << Enter(<<LowerX>>) >> \o UnknownCommand(LowerX)
  /\ cmd_len_ = 0

\* C12: a line that is empty or holds whitespace only emits nothing, calls
\* nothing, changes no device state and leaves the buffer empty.
C12_BlankLineIgnored ==
  [][Fed({LF}) /\ (\A i \in 1..Len(Line) : IsSpace(Line[i])) =>
       /\ trace' = << Enter(Line) >>
       /\ DevUnchanged
       /\ cmd_len_' = 0
       /\ cmd_buffer_' = << NUL >>]_vars

\* the line of three spaces was dispatched and nothing followed
C12_Witness ==
  /\ last_op = "respondToByte" /\ last_c = LF
  /\ trace = << Enter(<<SPACE, SPACE, SPACE>>) >>
  /\ cmd_len_ = 0

\* C13: the gain changes only in the dispatch of a k line with a number and
\* by a call of setVolKnobGain_dB, the delay only in the dispatch of a d
\* line with a number and by a call of setDelay_ms, the flag only in the
\* dispatch of a c line and by a call of togglePrintMemoryAndCPU; every
\* other step, printHelp included, leaves all three unchanged.
C13_DeviceChangesOnlyOnDispatch ==
  [][/\ vol_knob_gain_dB' # vol_knob_gain_dB =>
          /\ Fed({LF}) /\ Cmd \in {LowerK, UpperK} /\ HasNumber(Line, ArgPos)
          /\ Tail(trace') = << Call("setVolKnobGain_dB", vol_knob_gain_dB') >>
     /\ delay_ms' # delay_ms =>
          /\ Fed({LF}) /\ Cmd \in {LowerD, UpperD} /\ HasNumber(Line, ArgPos)
          /\ Tail(trace') = << Call("setDelay_ms", delay_ms') >>
     /\ printCPU' # printCPU =>
          /\ Fed({LF}) /\ Cmd \in {LowerC, UpperC}
          /\ Call("togglePrintMemoryAndCPU", Zero) \in Range(trace')
     /\ ~Fed({LF}) => (\A i \in 1..Len(trace') : ~IsCall(trace'[i]))]_vars

\* a c line was dispatched while the gain was 10 and the delay 25: the flag
\* is set, gain and delay are as before
C13_Witness ==
  /\ last_op = "respondToByte" /\ last_c = LF
  /\ Call("togglePrintMemoryAndCPU", Zero) \in Range(trace)
  /\ printCPU
  /\ vol_knob_gain_dB = Ten /\ delay_ms = TwentyFive

\* C14: whether a k or d line has an argument is whether the text after the
\* letter and the whitespace starts with a number; what follows the number
\* changes nothing: the line causes the events of the line cut after the
\* number, and "k 10abc" calls setVolKnobGain_dB(10) and prints nothing.
C14_TrailingTextIgnored ==
  [][Fed({LF}) /\ Cmd \in {LowerK, UpperK, LowerD, UpperD} =>
       /\ HasNumber(Line, ArgPos) =>
            /\ Tail(trace') =
                 processLine_(SubSeq(Line, 1, StrToF(Line, ArgPos).end - 1),
                              vol_knob_gain_dB, delay_ms)
            /\ Len(trace') = 2 /\ IsCall(trace'[2])
       /\ ~HasNumber(Line, ArgPos) =>
            \A i \in 1..Len(trace') : ~IsCall(trace'[i])
       /\ Line = <<LowerK, SPACE, Digit(1), Digit(0), LowerA, LowerB, LowerC>> =>
            /\ Tail(trace') = << Call("setVolKnobGain_dB", Ten) >>
            /\ vol_knob_gain_dB' = Ten]_vars

\* "k 10abc" was dispatched and set the gain to 10
C14_Witness ==
  /\ last_op = "respondToByte" /\ last_c = LF
  /\ trace = << Enter(<<LowerK, SPACE, Digit(1), Digit(0), LowerA, LowerB, LowerC>>),
                Call("setVolKnobGain_dB", Ten) >>
  /\ vol_knob_gain_dB = Ten

\* what a g line prints while the gain is gain and the delay is delay
GainAndDelay(gain, delay) ==
  << Call("printGainSettings", gain),
     SerialPrint("Delay = "), SerialPrintFloat(delay, 2), SerialPrintln(" ms") >>

\* C15: the dispatch of "g" emits the gain and delay report of the device
\* state it leaves, changes neither gain, delay nor flag, and leaves the
\* interpreter with the empty buffer: repeated with no change of the device
\* in between, it emits the same every time and ends in the same state.
C15_GainReportIdempotent ==
  [][Fed({LF}) /\ Cmd \in {LowerG, UpperG} =>
       /\ Tail(trace') = GainAndDelay(vol_knob_gain_dB', delay_ms')
       /\ DevUnchanged
       /\ cmd_len_' = 0
       /\ cmd_buffer_' = << NUL >>
       /\ fed' = << >>]_vars

\* "g" was dispatched while the gain was 10 and the delay 25
C15_Witness ==
  /\ last_op = "respondToByte" /\ last_c = LF
  /\ trace = << Enter(<<LowerG>>) >> \o GainAndDelay(Ten, TwentyFive)
  /\ vol_knob_gain_dB = Ten /\ delay_ms = TwentyFive

\* C16: processLine_ is entered in the steps that feed '\n' and in no
\* other, once in each; a step that feeds another byte calls no function of
\* the sketch and emits nothing but, on overflow, the notice; printHelp
\* enters no line processing either.
C16_DispatchOnlyOnNewline ==
  [][/\ Fed({LF}) =>
          /\ Len(trace') >= 1 /\ trace'[1].op = "processLine_"
          /\ \A i \in 2..Len(trace') : trace'[i].op # "processLine_"
     /\ ~Fed({LF}) =>
          \A i \in 1..Len(trace') :
            trace'[i].op # "processLine_" /\ ~IsCall(trace'[i])
     /\ last_op' = "respondToByte" /\ last_c' # LF =>
          trace' \in { << >>, << OverflowNotice >> }]_vars

\* "h" was dispatched: one entry of processLine_, then the help text
C16_Witness ==
  /\ last_op = "respondToByte" /\ last_c = LF
  /\ trace = << Enter(<<LowerH>>) >> \o printHelp

\* C17: the '\n' that ends a line which overflowed the buffer dispatches
\* nothing of it: no call and no output follow.
C17_NoFragmentDispatched ==
  [][Fed({LF}) /\ notices > 0 => Tail(trace') = << >>]_vars

ToggleConfirmation ==
  SerialPrintln("Command Received: toggle printing of memory and CPU usage.")

\* C18: a c or C line, with or without text after the letter, prints the
\* confirmation and then calls togglePrintMemoryAndCPU once; it calls no
\* setter: gain and delay stay, the flag flips.
C18_ToggleAfterConfirmation ==
  [][Fed({LF}) /\ Cmd \in {LowerC, UpperC} =>
       /\ Tail(trace') = << ToggleConfirmation,
                            Call("togglePrintMemoryAndCPU", Zero) >>
       /\ printCPU' = ~printCPU
       /\ UNCHANGED << vol_knob_gain_dB, delay_ms >>]_vars

\* "c c" was dispatched: confirmation, then the toggle, and the flag is set
C18_Witness ==
  /\ last_op = "respondToByte" /\ last_c = LF
  /\ trace = << Enter(<<LowerC, SPACE, LowerC>>), ToggleConfirmation,
                Call("togglePrintMemoryAndCPU", Zero) >>
  /\ printCPU

\* the last n elements of s
LastN(s, n) == SubSeq(s, Len(s) - n + 1, Len(s))

\* C19 as stated: at the '\n' that ends a line of N characters the notice
\* was emitted floor(N/64) times and the string dispatched is the last
\* N mod 64 characters of the line.
C19_TailDispatched ==
  [][Fed({LF}) =>
       /\ notices = Len(fed) \div CmdBufferSize
       /\ trace'[1] = Enter(LastN(fed, Len(fed) % CmdBufferSize))]_vars

\* C19, amended: after N characters of a line the notice was emitted
\* floor(N/64) times, once at each 64th character, which is not stored; the
\* buffer holds the last N mod 64 characters, and the string dispatched at
\* the '\n' is those characters up to the first NUL among them.
C19_TailDispatchedUpToNul ==
  [][/\ FedChar =>
          /\ (trace' = << OverflowNotice >>) <=> (Len(fed') % CmdBufferSize = 0)
          /\ notices' = Len(fed') \div CmdBufferSize
          /\ cmd_len_' = Len(fed') % CmdBufferSize
          /\ SubSeq(cmd_buffer_', 1, cmd_len_') = LastN(fed', Len(fed') % CmdBufferSize)
     /\ Fed({LF}) =>
          /\ notices = Len(fed) \div CmdBufferSize
          /\ trace'[1] = Enter(CStr(LastN(fed, Len(fed) % CmdBufferSize)))
          /\ NUL \notin Range(fed) =>
               trace'[1].line = LastN(fed, Len(fed) % CmdBufferSize)]_vars

\* 130 characters were fed: two notices, and the buffer holds the last two
C19_Witness ==
  /\ last_op = "respondToByte"
  /\ Len(fed) = 2 * CmdBufferSize + 2
  /\ notices = 2
  /\ cmd_len_ = 2

\* C20: the events of a line are those of its command letter followed by
\* the text from the argument on, whatever whitespace is before the letter
\* or between letter and argument; a line is reported unknown exactly when
\* its letter alone is; for h, ?, g and c the events are those of the letter
\* alone; "k10" calls setVolKnobGain_dB(10) and "g 5" prints what "g" does.
C20_LetterAloneSelects ==
  [][Fed({LF}) /\ Cmd # NUL =>
       /\ Tail(trace') =
            processLine_(<<Cmd>> \o SubSeq(Line, ArgPos, Len(Line)),
                         vol_knob_gain_dB, delay_ms)
       /\ (Tail(trace') = UnknownCommand(Cmd)) <=>
            (processLine_(<<Cmd>>, vol_knob_gain_dB, delay_ms) = UnknownCommand(Cmd))
       /\ Cmd \in {LowerH, QMARK, LowerG, UpperG, LowerC, UpperC} =>
            Tail(trace') = processLine_(<<Cmd>>, vol_knob_gain_dB, delay_ms)
       /\ Line = <<LowerK, Digit(1), Digit(0)>> =>
            Tail(trace') = << Call("setVolKnobGain_dB", Ten) >>
       /\ Line = <<LowerG, SPACE, Digit(5)>> =>
            Tail(trace') = GainAndDelay(vol_knob_gain_dB, delay_ms)]_vars

\* "g 5" was dispatched and printed the report, "5" ignored
C20_Witness ==
  /\ last_op = "respondToByte" /\ last_c = LF
  /\ trace = << Enter(<<LowerG, SPACE, Digit(5)>>) >>
               \o GainAndDelay(vol_knob_gain_dB, delay_ms)

====
